---- MODULE Spec2Model ----
(***************************************************************************)
(* A model of main.cc: the two OpenMP loop kernels loop1chunk and          *)
(* loop2chunk, the initialisation and validation routines, and main.       *)
(*                                                                         *)
(* Numbers.  A double is modelled symbolically, so that neither the        *)
(* rounding of an addition nor the values of cos and log are assumed:      *)
(*   - a cell of b holds the exact rational <<num, den>> of the integer    *)
(*     expression its initialiser converts to double (0.0 is <<0, 1>>);    *)
(*   - a cell of a or c holds the sequence of the addends that have been   *)
(*     added to 0.0, in the order of the additions (0.0 is <<>>).  Two     *)
(*     sums are equal only when the same addends were added in the same    *)
(*     order, which is what makes floating-point sums bit-identical.       *)
(* The matrices a and b are kept as finite maps from <<i, j>> to the cells *)
(* that are not 0.0 (static storage starts as zeroes).                     *)
(***************************************************************************)
EXTENDS Integers, Sequences, FiniteSets, TLC

\* #define N 729 and #define reps 100
N == 729
reps == 100

\* Sizes explored for the interleaved runs of the kernels
MaxN == 3
MaxThreads == 2
MaxReps == 2
MaxChunk == 2

\* The number of operations of a caller that mixes initialisers and kernels
MaxOps == 3

\* An array size at which init2 leaves rows with jmax[i] = 1 beside rows with
\* jmax[i] = N (the first such rows are 31 and 30)
MaxWide == 32

VARIABLES
  dim,       \* the array dimension of the build (the macro N)
  nrep,      \* the repetition count of the build (the macro reps)
  a, b, c, jmax,
  nthreads,  \* the OpenMP runtime's team size
  sched,     \* the OpenMP runtime's run-sched-var: [kind, chunk]
  mode,      \* who drives the calls: main, or a caller of the kernels
  pc,        \* the position of the calling (master) thread
  r,         \* main's repetition counter
  ii,        \* init2's first loop counter
  lo, hi,    \* the arguments of the kernel call in progress
  region,    \* the kernel whose parallel region the team runs (0: none yet)
  team,      \* the workers of the parallel region, 0..nthreads-1
  next,      \* the runtime's shared counter of the first unclaimed iteration
  iters,     \* how many times each outer index was completed in this call
  pre,       \* the caller's request: the kernel, the range, and a and c before it
  plan,      \* the sub-ranges the caller has still to pass to the kernel
  suma, sumc,\* the locals of valid1 and valid2, as printed
  report     \* what print_omp_config printed

vars == <<dim, nrep, a, b, c, jmax, nthreads, sched, mode, pc, r, ii, lo, hi,
          region, team, next, iters, pre, plan, suma, sumc, report>>

Rows(n) == 0..(n - 1)

-----------------------------------------------------------------------------
\* Doubles

Zero == <<0, 1>>

\* (double) num / (double) den, with 0.0 in one form
Dbl(num, den) == IF num = 0 THEN Zero ELSE <<num, den>>

\* cos(x) and log(x): uninterpreted, except for log's domain
Cos(x) == <<"cos", x>>

Log(x) == IF x[1] > 0 THEN <<"log", x>>
          ELSE IF x[1] = 0 THEN <<"-inf">> ELSE <<"nan">>

\* acc += t
Add(acc, t) == Append(acc, t)

\* m[i][j] of a matrix kept as a map of its non-zero cells
Cell(m, i, j, zero) == IF <<i, j>> \in DOMAIN m THEN m[<<i, j>>] ELSE zero

\* m[i][j] = v
Put(m, i, j, v, zero) ==
  IF v = zero
  THEN [x \in DOMAIN m \ {<<i, j>>} |-> m[x]]
  ELSE [x \in DOMAIN m \cup {<<i, j>>} |-> IF x = <<i, j>> THEN v ELSE m[x]]

\* The largest value of an int, and whether x * y and x + y of two ints that
\* are not negative are values of an int (decided without leaving the range)
INT_MAX == 2147483647

MulFits(x, y) == x = 0 \/ y = 0 \/ x <= INT_MAX \div y

AddFits(x, y) == x <= INT_MAX - y

Min(x, y) == IF x < y THEN x ELSE y
Max(x, y) == IF x > y THEN x ELSE y

-----------------------------------------------------------------------------
\* The loop nests of the kernels, as the positions their headers visit

NoPos == <<-1, -1>>

\* (the slip j=N-2)
First1Short(i) == IF dim - 2 > i THEN <<dim - 2, 0>> ELSE NoPos

\* loop1chunk: the inner header for (j=N-1; j>i; j--), entered for row i
First1(i) == IF dim - 1 > i THEN <<dim - 1, 0>> ELSE NoPos

\* (the slips j -= 2 and j>=i)
After1ByTwo(i, j) == IF j - 2 > i THEN <<j - 2, 0>> ELSE NoPos

After1Inclusive(i, j) == IF j - 1 >= i THEN <<j - 1, 0>> ELSE NoPos

\* loop1chunk: j-- and the test j>i, after the body at column j
After1(i, j) == IF j - 1 > i THEN <<j - 1, 0>> ELSE NoPos

\* (the slip k<=j)
RECURSIVE Next2Inclusive(_, _, _)
Next2Inclusive(i, j, k) ==
  IF ~(j < jmax[i]) THEN NoPos
  ELSE IF k <= j THEN <<j, k>>
  ELSE Next2Inclusive(i, j + 1, 0)

\* loop2chunk: the headers for (j..; j < jmax[i]; j++) for (k=0; k<j; k++),
\* from the candidate position (j, k) on
RECURSIVE Next2(_, _, _)
Next2(i, j, k) ==
  IF ~(j < jmax[i]) THEN NoPos
  ELSE IF k < j THEN <<j, k>>
  ELSE Next2(i, j + 1, 0)

First2(i) == Next2(i, 0, 0)

After2(i, j, k) == Next2(i, j, k + 1)

\* rN2 = 1.0 / (double) (N*N)
RN2 == Dbl(1, (dim * dim))

\* cos(b[i][j])
Term1(B, i, j) == Cos(Cell(B, i, j, Zero))

\* (the slip k * log (b[i][j]) * rN2)
Term2FromZero(B, i, j, k) == [k1 |-> k, lg |-> Log(Cell(B, i, j, Zero)), rN2 |-> RN2]

\* (k+1) * log (b[i][j]) * rN2
Term2(B, i, j, k) == [k1 |-> k + 1, lg |-> Log(Cell(B, i, j, Zero)), rN2 |-> RN2]

\* The first position of row i of kernel kn, and the one after (j, k)
RowFirst(kn, i) == IF kn = 1 THEN First1(i) ELSE First2(i)

RowAfter(kn, i, j, k) == IF kn = 1 THEN After1(i, j) ELSE After2(i, j, k)

\* Row i of kernel kn begins with an access outside the arrays: a[i][N-1]
\* and b[i][N-1] with i < 0 in loop1chunk (a row i >= N-1 has no j > i and
\* accesses nothing), jmax[i] with i < 0 or i >= N in loop2chunk
Wild(kn, i) == IF kn = 1 THEN i < 0 ELSE (i < 0 \/ i >= dim)

\* The first row of [i, e) whose body has something to execute, or e
RECURSIVE FirstRow(_, _, _)
FirstRow(kn, i, e) ==
  IF i >= e THEN e
  ELSE IF Wild(kn, i) THEN i
  ELSE IF RowFirst(kn, i) # NoPos THEN i
  ELSE FirstRow(kn, i + 1, e)

-----------------------------------------------------------------------------
\* The OpenMP runtime: #pragma omp parallel for schedule(runtime)

Workers == 0..(nthreads - 1)

\* The values run-sched-var can take: kind and chunk size (0: none given)
Schedules ==
  [kind : {"static"}, chunk : 0..MaxChunk]
    \cup [kind : {"dynamic", "guided"}, chunk : 1..MaxChunk]
    \cup [kind : {"auto"}, chunk : {0}]

InKernel == pc \in {"call1", "call2"}

\* (the slip of the two kernels' loop nests exchanged)
KnSwapped == 3 - region

\* The kernel whose region the team runs
Kn == region

Idle(q) == [ph |-> "idle", i |-> 0, e |-> 0, j |-> 0, k |-> 0, q |-> q]

AtBarrier == [ph |-> "barrier", i |-> 0, e |-> 0, j |-> 0, k |-> 0, q |-> 0]

\* (the slips i<=hi, kept inside the arrays, and i<N)
UpperInclusive == IF hi < dim THEN hi + 1 ELSE hi

UpperN == dim

\* (the slip i!=hi, which only the end of the arrays stops when lo > hi)
UpperNotEqual == IF lo <= hi THEN hi ELSE dim

\* for (i=lo; i<hi; i++): the bound the iterations stay below
Upper == hi

\* The number of iterations of for (i=lo; i<hi; i++)
TripCount == Max(Upper - lo, 0)

\* The chunks worker w may be given next, as [s, e, nx]: the chunk [s, e) and
\* the shared counter after it.  s >= e: nothing is left for w.
Chunks(w) ==
  LET q == team[w].q
      T == nthreads
  IN  CASE sched.kind = "static" /\ sched.chunk = 0 ->
             \* one block per thread, sizes differing by at most one
             LET base  == TripCount \div T
                 extra == TripCount % T
                 s     == lo + w * base + Min(w, extra)
                 e     == s + base + (IF w < extra THEN 1 ELSE 0)
             IN  IF q < T THEN {[s |-> s, e |-> e, nx |-> next]}
                 ELSE {[s |-> Upper, e |-> Upper, nx |-> next]}
        [] sched.kind = "static" /\ sched.chunk > 0 ->
             \* chunk number q of the round-robin deal
             LET s == lo + q * sched.chunk
             IN  {[s |-> s, e |-> Min(s + sched.chunk, Upper), nx |-> next]}
        [] sched.kind = "dynamic" ->
             LET e == Min(next + sched.chunk, Upper)
             IN  {[s |-> next, e |-> e, nx |-> Max(e, next)]}
        [] sched.kind = "guided" ->
             LET left == Max(Upper - next, 0)
                 size == Max(sched.chunk, (left + T - 1) \div T)
                 e    == Min(next + size, Upper)
             IN  {[s |-> next, e |-> e, nx |-> Max(e, next)]}
        [] OTHER ->
             \* auto: the implementation chooses
             IF next < Upper
             THEN {[s |-> next, e |-> e, nx |-> e] : e \in (next + 1)..Upper}
             ELSE {[s |-> next, e |-> next, nx |-> next]}

\* Worker w's record once it is to run the rows [i, e): at the first body to
\* execute, or back for another chunk when no row of [i, e) has one; "wild"
\* when that row begins outside the arrays
Goto(w, i, e) ==
  LET f == FirstRow(Kn, i, e)
      p == RowFirst(Kn, f)
  IN  IF f >= e THEN Idle(team[w].q)
      ELSE IF Wild(Kn, f)
      THEN [ph |-> "wild", i |-> f, e |-> e, j |-> 0, k |-> 0, q |-> team[w].q]
      ELSE [ph |-> "run", i |-> f, e |-> e, j |-> p[1], k |-> p[2],
            q |-> team[w].q]

\* The rows of [i, e) completed on the way to Goto(w, i, e)
Skipped(i, e) == i..(FirstRow(Kn, i, e) - 1)

Count(set) == [x \in Rows(dim) |-> iters[x] + (IF x \in set THEN 1 ELSE 0)]

\* The runtime hands worker w its next chunk, or sends it to the barrier
Claim(w) ==
  /\ team[w].ph = "idle"
  /\ \E ch \in Chunks(w) :
       /\ next' = ch.nx
       /\ IF ch.s >= ch.e
          THEN /\ team' = [team EXCEPT ![w] = AtBarrier]
               /\ iters' = iters
          ELSE /\ team' = [team EXCEPT ![w] =
                             [Goto(w, ch.s, ch.e) EXCEPT !.q = team[w].q + nthreads]]
               /\ iters' = Count(Skipped(ch.s, ch.e))
  /\ UNCHANGED <<dim, nrep, a, b, c, jmax, nthreads, sched, mode, pc, r, ii,
                 lo, hi, region, pre, plan, suma, sumc, report>>

\* Where the body of each kernel writes, for the outer index i and column j
\* (the slip a[j][i] += ...)
Target1Transposed(i, j) == <<j, i>>

Target1(i, j) == <<i, j>>

\* (the slip c[j] += ...)
Target2Column(i, j) == j

Target2(i, j) == i

\* One execution of the body by worker w, and the loop headers up to the next:
\*   a[i][j] += cos(b[i][j]);   or   c[i] += (k+1) * log (b[i][j]) * rN2;
\* The statement is one step: no two workers ever touch the same cell (Races
\* below is empty in every reachable state), so its read and its write cannot
\* be separated by another worker's access to the cell.
Body(w) ==
  LET t == team[w]
      p == RowAfter(Kn, t.i, t.j, t.k)
  IN  /\ t.ph = "run"
      /\ IF Kn = 1
         THEN /\ a' = LET x == Target1(t.i, t.j)
                      IN  Put(a, x[1], x[2],
                              Add(Cell(a, x[1], x[2], <<>>), Term1(b, t.i, t.j)), <<>>)
              /\ c' = c
         ELSE /\ c' = LET x == Target2(t.i, t.j)
                      IN  [c EXCEPT ![x] = Add(c[x], Term2(b, t.i, t.j, t.k))]
              /\ a' = a
      /\ IF p # NoPos
         THEN /\ team' = [team EXCEPT ![w] = [t EXCEPT !.j = p[1], !.k = p[2]]]
              /\ iters' = iters
         ELSE /\ team' = [team EXCEPT ![w] = Goto(w, t.i + 1, t.e)]
              /\ iters' = Count({t.i} \cup Skipped(t.i + 1, t.e))
      /\ UNCHANGED <<dim, nrep, b, jmax, nthreads, sched, mode, pc, r, ii,
                     lo, hi, region, next, pre, plan, suma, sumc, report>>

\* Worker w executes a row that begins outside the arrays: the behaviour is
\* undefined.  The build has no bounds check, so the accesses go to the memory
\* next to the arrays, below them for i < 0 and above them for i >= N.  Either
\* that memory is not the process's and the process is killed by a signal, or
\* the row runs on what it finds there and its stores land in something that
\* is none of the arrays, or in the nearest cell of one of them.
Stray(x) ==
  \/ UNCHANGED <<a, b, c, jmax>>
  \/ /\ a' = Put(a, x, x, Add(Cell(a, x, x, <<>>), <<"stray">>), <<>>)
     /\ UNCHANGED <<b, c, jmax>>
  \/ /\ b' = Put(b, x, x, <<-1, 1>>, Zero)
     /\ UNCHANGED <<a, c, jmax>>
  \/ /\ c' = [c EXCEPT ![x] = Add(c[x], <<"stray">>)]
     /\ UNCHANGED <<a, b, jmax>>
  \/ /\ \E v \in {0, dim} : jmax' = [jmax EXCEPT ![x] = v]
     /\ UNCHANGED <<a, b, c>>

Undefined(w) ==
  LET t == team[w]
  IN  /\ t.ph = "wild"
      /\ \/ /\ pc' = "killed"
            /\ team' = [v \in Workers |-> [team[v] EXCEPT !.ph = "killed"]]
            /\ UNCHANGED <<a, b, c, jmax, iters>>
         \/ /\ Stray(IF t.i < 0 THEN dim - 1 ELSE 0)
            /\ team' = [team EXCEPT ![w] = Goto(w, t.i + 1, t.e)]
            /\ iters' = Count(Skipped(t.i + 1, t.e))
            /\ pc' = pc
      /\ UNCHANGED <<dim, nrep, nthreads, sched, mode, r, ii, lo, hi, region,
                     next, pre, plan, suma, sumc, report>>

-----------------------------------------------------------------------------
\* The calling thread: the fork and the join of a kernel call

NoCall == [kn |-> 0, lo |-> 0, hi |-> 0, parts |-> 0,
           a |-> <<>>, b |-> <<>>, c |-> <<>>, jmax |-> <<>>]

\* loop1chunk(l, h) / loop2chunk(l, h) is entered: the parallel region starts
Fork(kn, l, h) ==
  /\ pc' = IF kn = 1 THEN "call1" ELSE "call2"
  /\ lo' = l
  /\ hi' = h
  /\ region' = kn
  /\ team' = [w \in Workers |-> Idle(w)]
  /\ next' = l
  /\ iters' = [x \in Rows(dim) |-> 0]

\* What the caller asks for: kernel kn over [l, h), in one call or in two, and
\* the arrays as they are before it
Request(kn, l, h, parts) ==
  [kn |-> kn, lo |-> l, hi |-> h, parts |-> parts,
   a |-> a, b |-> b, c |-> c, jmax |-> jmax]

\* (the region's barrier dropped, as with nowait: the caller goes on as soon as
\* it has no iteration of its own left)
JoinNoWait ==
  /\ InKernel
  /\ team[0].ph = "barrier"
  /\ pc' = IF mode = "main" THEN (IF pc = "call1" THEN "loop1" ELSE "loop2")
           ELSE IF plan # <<>> THEN "next" ELSE "done"
  /\ r' = IF mode = "main" THEN r + 1 ELSE r
  /\ UNCHANGED <<dim, nrep, a, b, c, jmax, nthreads, sched, mode, ii, lo, hi,
                 region, team, next, iters, pre, plan, suma, sumc, report>>

\* (a barrier that counts one thread more than the team has)
JoinOneMore ==
  /\ InKernel
  /\ Cardinality({w \in Workers : team[w].ph = "barrier"}) = nthreads + 1
  /\ pc' = IF mode = "main" THEN (IF pc = "call1" THEN "loop1" ELSE "loop2")
           ELSE IF plan # <<>> THEN "next" ELSE "done"
  /\ r' = IF mode = "main" THEN r + 1 ELSE r
  /\ UNCHANGED <<dim, nrep, a, b, c, jmax, nthreads, sched, mode, ii, lo, hi,
                 region, team, next, iters, pre, plan, suma, sumc, report>>

\* The implicit barrier at the end of the region: the call returns
Join ==
  /\ InKernel
  /\ \A w \in Workers : team[w].ph = "barrier"
  /\ pc' = IF mode = "main" THEN (IF pc = "call1" THEN "loop1" ELSE "loop2")
           ELSE IF plan # <<>> THEN "next" ELSE "done"
  /\ r' = IF mode = "main" THEN r + 1 ELSE r
  /\ UNCHANGED <<dim, nrep, a, b, c, jmax, nthreads, sched, mode, ii, lo, hi,
                 region, team, next, iters, pre, plan, suma, sumc, report>>

-----------------------------------------------------------------------------
\* init1, init2, valid1, valid2, print_omp_config

\* a[i][j] = 0.0; b[i][j] = 3.142*(i+j);
B1(i, j) == Dbl(3142 * (i + j), 1000)

\* (the slip of leaving a[i][j] = 0.0 out: a is zero when the program starts)
init1KeepsA ==
  /\ a' = a
  /\ b' = [x \in {y \in Rows(dim) \X Rows(dim) : B1(y[1], y[2]) # Zero}
            |-> B1(x[1], x[2])]

init1 ==
  /\ a' = <<>>
  /\ b' = [x \in {y \in Rows(dim) \X Rows(dim) : B1(y[1], y[2]) # Zero}
            |-> B1(x[1], x[2])]

\* (the slip i%( 3*(i/3) + 1))
ExprBy3(i) == i % (3 * (i \div 3) + 1)

\* (the slip 3*(i/30), without the + 1)
DivisorNoOne(i) == 3 * (i \div 30)

\* 3*(i/30) + 1
Divisor(i) == 3 * (i \div 30) + 1

\* expr =  i%( 3*(i/30) + 1);
Expr(i) == i % Divisor(i)

\* (the slip of the two branches exchanged)
JmaxSwapped(i) == IF Expr(i) = 0 THEN 1 ELSE dim

\* if ( expr == 0) jmax[i] = N; else jmax[i] = 1;
Jmax(i) == IF Expr(i) = 0 THEN dim ELSE 1

\* One iteration of init2's first loop
Init2Row ==
  /\ pc = "init2"
  /\ ii < dim
  /\ jmax' = [jmax EXCEPT ![ii] = Jmax(ii)]
  /\ c' = [c EXCEPT ![ii] = <<>>]
  /\ ii' = ii + 1
  /\ UNCHANGED <<dim, nrep, a, b, nthreads, sched, mode, pc, r, lo, hi, region, team,
                 next, iters, pre, plan, suma, sumc, report>>

\* (the slip (double) (i*j) / (double) (N*N))
B2NoOne(i, j) == Dbl((i * j), (dim * dim))

\* b[i][j] = (double) (i*j+1) / (double) (N*N);
B2(i, j) == Dbl((i * j + 1), (dim * dim))

\* init2's second loop nest, and its return
Init2Fill ==
  /\ pc = "init2"
  /\ ~(ii < dim)
  /\ b' = [x \in {y \in Rows(dim) \X Rows(dim) : B2(y[1], y[2]) # Zero}
            |-> B2(x[1], x[2])]
  /\ pc' = CASE mode = "main" -> "loop2" [] mode = "api" -> "idle" [] OTHER -> "done"
  /\ UNCHANGED <<dim, nrep, a, c, jmax, nthreads, sched, mode, r, ii, lo, hi, region, team,
                 next, iters, pre, plan, suma, sumc, report>>

\* suma += a[i][j], for i and then j ascending
SumA == [x \in 1..(dim * dim) |-> Cell(a, (x - 1) \div dim, (x - 1) % dim, <<>>)]

\* sumc += c[i], for i ascending
SumC == [x \in 1..dim |-> c[x - 1]]

omp_sched_static == 1
omp_sched_dynamic == 2
omp_sched_guided == 3
omp_sched_auto == 4

\* omp_get_schedule's kind
KindOf(s) ==
  CASE s.kind = "static" -> omp_sched_static
    [] s.kind = "dynamic" -> omp_sched_dynamic
    [] s.kind = "guided" -> omp_sched_guided
    [] OTHER -> omp_sched_auto

omp_sched_to_cstr(k) ==
  CASE k = omp_sched_static -> "static"
    [] k = omp_sched_dynamic -> "dynamic"
    [] k = omp_sched_guided -> "guided"
    [] k = omp_sched_auto -> "auto"
    [] OTHER -> "unknown"

print_omp_config ==
  report' = [threads |-> nthreads, schedule |-> omp_sched_to_cstr(KindOf(sched)),
             chunk |-> sched.chunk]

-----------------------------------------------------------------------------
\* main

MainInit1 ==
  /\ mode = "main"
  /\ pc = "init1"
  /\ init1
  /\ pc' = "config"
  /\ UNCHANGED <<dim, nrep, c, jmax, nthreads, sched, mode, r, ii, lo, hi, region, team,
                 next, iters, pre, plan, suma, sumc, report>>

\* (the slip of fixing the policy where it is reported:
\* omp_set_schedule(omp_sched_static, 0))
MainConfigSets ==
  /\ mode = "main"
  /\ pc = "config"
  /\ print_omp_config
  /\ sched' = [kind |-> "static", chunk |-> 0]
  /\ pc' = "loop1"
  /\ UNCHANGED <<dim, nrep, a, b, c, jmax, nthreads, mode, r, ii, lo, hi,
                 region, team, next, iters, pre, plan, suma, sumc>>

MainConfig ==
  /\ mode = "main"
  /\ pc = "config"
  /\ print_omp_config
  /\ pc' = "loop1"
  /\ UNCHANGED <<dim, nrep, a, b, c, jmax, nthreads, sched, mode, r, ii, lo, hi,
                 region, team, next, iters, pre, plan, suma, sumc>>

\* (the slip r<=reps)
MainCall1OneMore ==
  /\ mode = "main"
  /\ pc = "loop1"
  /\ r <= nrep
  /\ Fork(1, 0, dim)
  /\ pre' = Request(1, 0, dim, 1)
  /\ UNCHANGED <<dim, nrep, a, b, c, jmax, nthreads, sched, mode, r, ii, plan,
                 suma, sumc, report>>

\* for (int r=0; r<reps; r++) loop1chunk(lo, hi);   with lo = 0, hi = N
MainCall1 ==
  /\ mode = "main"
  /\ pc = "loop1"
  /\ r < nrep
  /\ Fork(1, 0, dim)
  /\ pre' = Request(1, 0, dim, 1)
  /\ UNCHANGED <<dim, nrep, a, b, c, jmax, nthreads, sched, mode, r, ii, plan,
                 suma, sumc, report>>

\* valid1, after the first loop of main
MainValid1 ==
  /\ mode = "main"
  /\ pc = "loop1"
  /\ ~(r < nrep)
  /\ suma' = SumA
  /\ pc' = "init2"
  /\ ii' = 0
  /\ r' = 0
  /\ UNCHANGED <<dim, nrep, a, b, c, jmax, nthreads, sched, mode, lo, hi, region, team,
                 next, iters, pre, plan, sumc, report>>

MainCall2 ==
  /\ mode = "main"
  /\ pc = "loop2"
  /\ r < nrep
  /\ Fork(2, 0, dim)
  /\ pre' = Request(2, 0, dim, 1)
  /\ UNCHANGED <<dim, nrep, a, b, c, jmax, nthreads, sched, mode, r, ii, plan,
                 suma, sumc, report>>

MainValid2 ==
  /\ mode = "main"
  /\ pc = "loop2"
  /\ ~(r < nrep)
  /\ sumc' = SumC
  /\ pc' = "done"
  /\ UNCHANGED <<dim, nrep, a, b, c, jmax, nthreads, sched, mode, r, ii, lo, hi,
                 region, team, next, iters, pre, plan, suma, report>>

-----------------------------------------------------------------------------
\* A caller of the kernels and of the initialisers, other than main

\* The caller initialises as main does: init1 first, if at all
ApiInit1 ==
  /\ mode = "api"
  /\ pc = "start"
  /\ init1
  /\ pc' = "idle"
  /\ UNCHANGED <<dim, nrep, c, jmax, nthreads, sched, mode, r, ii, lo, hi,
                 region, team, next, iters, pre, plan, suma, sumc, report>>

ApiInit2 ==
  /\ mode = "api"
  /\ pc \in {"start", "idle"}
  /\ pc' = "init2"
  /\ ii' = 0
  /\ UNCHANGED <<dim, nrep, a, b, c, jmax, nthreads, sched, mode, r, lo, hi, region, team,
                 next, iters, pre, plan, suma, sumc, report>>

\* One call, with any pair of bounds in [0, N]
ApiCall(kn) ==
  /\ mode = "api"
  /\ pc \in {"start", "idle"}
  /\ \E l \in 0..dim, h \in 0..dim :
       /\ Fork(kn, l, h)
       /\ pre' = Request(kn, l, h, 1)
  /\ UNCHANGED <<dim, nrep, a, b, c, jmax, nthreads, sched, mode, r, ii, plan,
                 suma, sumc, report>>

\* The range [l, h) subdivided at m: the first of the two calls, on either part
ApiSplit(kn) ==
  /\ mode = "api"
  /\ pc \in {"start", "idle"}
  /\ \E l \in 0..dim, h \in 0..dim, m \in 0..dim :
       /\ l <= m
       /\ m <= h
       /\ pre' = Request(kn, l, h, 2)
       /\ \/ Fork(kn, l, m) /\ plan' = <<<<m, h>>>>
          \/ Fork(kn, m, h) /\ plan' = <<<<l, m>>>>
  /\ UNCHANGED <<dim, nrep, a, b, c, jmax, nthreads, sched, mode, r, ii,
                 suma, sumc, report>>

\* The second call of a subdivided range
ApiNext ==
  /\ mode = "api"
  /\ pc = "next"
  /\ Fork(pre.kn, plan[1][1], plan[1][2])
  /\ plan' = <<>>
  /\ UNCHANGED <<dim, nrep, a, b, c, jmax, nthreads, sched, mode, r, ii, pre,
                 suma, sumc, report>>

-----------------------------------------------------------------------------
\* The state a run starts in: static storage is zeroed, and the runtime has
\* read its configuration from the environment

Start(m, n, p) ==
  /\ mode = m
  /\ dim = n
  /\ a = <<>>
  /\ b = <<>>
  /\ c = [x \in Rows(n) |-> <<>>]
  /\ jmax = [x \in Rows(n) |-> 0]
  /\ nthreads \in 1..MaxThreads
  /\ sched \in Schedules
  /\ pc = p
  /\ r = 0
  /\ ii = 0
  /\ lo = 0
  /\ hi = 0
  /\ region = 0
  /\ team = [w \in Workers |-> AtBarrier]
  /\ next = 0
  /\ iters = [x \in Rows(n) |-> 0]
  /\ pre = NoCall
  /\ plan = <<>>
  /\ suma = <<>>
  /\ sumc = <<>>
  /\ report = <<>>

Init == \E n \in 1..MaxN : Start("main", n, "init1") /\ nrep = MaxReps

Next ==
  \/ MainInit1
  \/ MainConfig
  \/ MainCall1
  \/ MainValid1
  \/ Init2Row
  \/ Init2Fill
  \/ MainCall2
  \/ MainValid2
  \/ \E w \in Workers : Claim(w)
  \/ \E w \in Workers : Body(w)
  \/ Join

Spec == Init /\ [][Next]_vars

\* The kernels called with any ranges by some other caller
InitApi == \E n \in 1..MaxN : Start("api", n, "start") /\ nrep = MaxReps

NextApi ==
  \/ ApiInit1
  \/ ApiInit2
  \/ Init2Row
  \/ Init2Fill
  \/ \E kn \in {1, 2} : ApiCall(kn)
  \/ \E kn \in {1, 2} : ApiSplit(kn)
  \/ ApiNext
  \/ \E w \in Workers : Claim(w)
  \/ \E w \in Workers : Body(w)
  \/ Join

SpecApi == InitApi /\ [][NextApi]_vars

\* A step of the team: of one of its workers, or the return from the barrier
TeamStep == (\E w \in Workers : Claim(w) \/ Body(w)) \/ Join

\* Single calls of the kernels, with the team's threads scheduled: while some
\* thread of the team can take a step, one of them eventually does.  This is
\* less than the fair scheduling of every single thread, which implies it.
NextCall ==
  \/ ApiInit1
  \/ ApiInit2
  \/ Init2Row
  \/ Init2Fill
  \/ \E kn \in {1, 2} : ApiCall(kn)
  \/ \E w \in Workers : Claim(w)
  \/ \E w \in Workers : Body(w)
  \/ Join

FairCall == InitApi /\ [][NextCall]_vars /\ WF_vars(TeamStep)

\* One call with a range that is not 0 <= lo <= hi <= N and holds no row: the
\* bounds out of order, or equal and outside [0, N]
BackwardCall(kn) ==
  /\ mode = "api"
  /\ pc \in {"start", "idle"}
  /\ \E l \in (-1)..(dim + 1), h \in (-1)..(dim + 1) :
       /\ ~(0 <= l /\ l <= h /\ h <= dim)
       /\ l >= h
       /\ Fork(kn, l, h)
       /\ pre' = Request(kn, l, h, 1)
  /\ UNCHANGED <<dim, nrep, a, b, c, jmax, nthreads, sched, mode, r, ii, plan,
                 suma, sumc, report>>

\* One call with lo < hi and a bound outside [0, N].  The runtime's team has
\* one thread here: more threads interleave the same outcomes.
WildCall(kn) ==
  /\ mode = "api"
  /\ pc \in {"start", "idle"}
  /\ nthreads = 1
  /\ \E l \in (-1)..(dim + 1), h \in (-1)..(dim + 1) :
       /\ ~(0 <= l /\ l <= h /\ h <= dim)
       /\ l < h
       /\ Fork(kn, l, h)
       /\ pre' = Request(kn, l, h, 1)
  /\ UNCHANGED <<dim, nrep, a, b, c, jmax, nthreads, sched, mode, r, ii, plan,
                 suma, sumc, report>>

NextWild ==
  \/ ApiInit1
  \/ ApiInit2
  \/ Init2Row
  \/ Init2Fill
  \/ \E kn \in {1, 2} : BackwardCall(kn)
  \/ \E kn \in {1, 2} : WildCall(kn)
  \/ \E w \in Workers : Claim(w)
  \/ \E w \in Workers : Body(w)
  \/ \E w \in Workers : Undefined(w)
  \/ Join

SpecWild == InitApi /\ [][NextWild]_vars

\* A caller that calls init1, init2 and the kernels over all rows in any
\* order, MaxOps times in all: pre.kn tells the operation, 3 for init1 and 4
\* for init2.  One thread runs the kernels: what a call leaves in the arrays
\* does not depend on the team.
AnyInit1 ==
  /\ mode = "any"
  /\ pc \in {"start", "done"}
  /\ r < MaxOps
  /\ init1
  /\ pre' = Request(3, 0, dim, 1)
  /\ pc' = "done"
  /\ r' = r + 1
  /\ UNCHANGED <<dim, nrep, c, jmax, nthreads, sched, mode, ii, lo, hi,
                 region, team, next, iters, plan, suma, sumc, report>>

AnyInit2 ==
  /\ mode = "any"
  /\ pc \in {"start", "done"}
  /\ r < MaxOps
  /\ pre' = Request(4, 0, dim, 1)
  /\ pc' = "init2"
  /\ ii' = 0
  /\ r' = r + 1
  /\ UNCHANGED <<dim, nrep, a, b, c, jmax, nthreads, sched, mode, lo, hi, region,
                 team, next, iters, plan, suma, sumc, report>>

AnyCall(kn) ==
  /\ mode = "any"
  /\ pc \in {"start", "done"}
  /\ r < MaxOps
  /\ Fork(kn, 0, dim)
  /\ pre' = Request(kn, 0, dim, 1)
  /\ r' = r + 1
  /\ UNCHANGED <<dim, nrep, a, b, c, jmax, nthreads, sched, mode, ii, plan,
                 suma, sumc, report>>

InitAny ==
  /\ \E n \in 1..MaxN : Start("any", n, "start")
  /\ nrep = MaxReps
  /\ nthreads = 1

NextAny ==
  \/ AnyInit1
  \/ AnyInit2
  \/ Init2Row
  \/ Init2Fill
  \/ \E kn \in {1, 2} : AnyCall(kn)
  \/ \E w \in Workers : Claim(w)
  \/ \E w \in Workers : Body(w)
  \/ Join

SpecAny == InitAny /\ [][NextAny]_vars

\* A caller that runs init2 on an array of MaxWide rows and then calls
\* loop2chunk on ranges of its last three rows, nrep times; one thread runs
\* the rows, handed to it one at a time or as the schedule's default says
RowsCall ==
  /\ mode = "rows"
  /\ pc = "done"
  /\ r < nrep
  /\ \E l \in (dim - 3)..dim, h \in (dim - 3)..dim :
       /\ l <= h
       /\ Fork(2, l, h)
       /\ pre' = Request(2, l, h, 1)
  /\ r' = r + 1
  /\ UNCHANGED <<dim, nrep, a, b, c, jmax, nthreads, sched, mode, ii, plan,
                 suma, sumc, report>>

InitRows ==
  /\ Start("rows", MaxWide, "init2")
  /\ nrep = MaxReps
  /\ nthreads = 1
  /\ sched.chunk <= 1

NextRows ==
  \/ Init2Row
  \/ Init2Fill
  \/ RowsCall
  \/ \E w \in Workers : Claim(w)
  \/ \E w \in Workers : Body(w)
  \/ Join

SpecRows == InitRows /\ [][NextRows]_vars

\* init2 at the size of the build, on the storage as loaded
InitFull ==
  /\ Start("full", N, "init2")
  /\ nrep = reps
  /\ nthreads = 1
  /\ sched = [kind |-> "static", chunk |-> 0]

NextFull == Init2Row \/ Init2Fill

SpecFull == InitFull /\ [][NextFull]_vars

-----------------------------------------------------------------------------
\* The kernels as one thread executes them: the loop nests in program order

RECURSIVE Inner1(_, _, _, _)
Inner1(A, B, i, j) ==
  IF j > i
  THEN Inner1(Put(A, i, j, Add(Cell(A, i, j, <<>>), Cos(Cell(B, i, j, Zero))), <<>>),
              B, i, j - 1)
  ELSE A

RECURSIVE Seq1(_, _, _, _)
Seq1(A, B, i, h) ==
  IF i < h THEN Seq1(Inner1(A, B, i, dim - 1), B, i + 1, h) ELSE A

RECURSIVE InnerK(_, _, _, _, _, _)
InnerK(C, B, J, i, j, k) ==
  IF k < j
  THEN InnerK([C EXCEPT ![i] = Add(C[i], [k1 |-> k + 1,
                                          lg |-> Log(Cell(B, i, j, Zero)),
                                          rN2 |-> Dbl(1, dim * dim)])],
              B, J, i, j, k + 1)
  ELSE C

RECURSIVE InnerJ(_, _, _, _, _)
InnerJ(C, B, J, i, j) ==
  IF j < J[i] THEN InnerJ(InnerK(C, B, J, i, j, 0), B, J, i, j + 1) ELSE C

RECURSIVE Seq2(_, _, _, _, _)
Seq2(C, B, J, i, h) ==
  IF i < h THEN Seq2(InnerJ(C, B, J, i, 0), B, J, i + 1, h) ELSE C

-----------------------------------------------------------------------------
\* What the statement a running worker executes next reads and writes

Running == {w \in Workers : team[w].ph = "run"}

Writes(w) ==
  IF Kn = 1 THEN {<<"a", Target1(team[w].i, team[w].j)>>}
  ELSE {<<"c", Target2(team[w].i, team[w].j)>>}

Reads(w) ==
  Writes(w) \cup
  (IF Kn = 1 THEN {<<"b", <<team[w].i, team[w].j>>>>}
   ELSE {<<"b", <<team[w].i, team[w].j>>>>, <<"jmax", team[w].i>>})

\* The pairs of workers about to access one cell, one of them writing it
Races ==
  {p \in Running \X Running :
     /\ p[1] # p[2]
     /\ Writes(p[1]) \cap (Reads(p[2]) \cup Writes(p[2])) # {}}

-----------------------------------------------------------------------------
Returned(kn, parts) == pc = "done" /\ pre.kn = kn /\ pre.parts = parts

C8_EmptyRange ==
  [][(InKernel /\ lo = hi) =>
       /\ UNCHANGED <<a, b, c, jmax, iters>>
       /\ \A w \in Workers : team'[w].ph # "run"]_vars

\* loop2chunk(N, N) has returned, called after init2
C8_Witness ==
  /\ Returned(2, 1)
  /\ pre.lo = dim
  /\ pre.hi = dim
  /\ pre.jmax[0] = dim
  /\ dim = MaxN

-----------------------------------------------------------------------------
\* The cell a[i][j] after n additions of cos(b[i][j]), b as init1 set it
Accumulated(i, j, n) == [x \in 1..n |-> Cos(B1(i, j))]

C5_ForkJoin ==
  /\ \A x \in Rows(dim) : iters[x] <= 1
  /\ ~InKernel =>
       /\ \A w \in Workers : team[w].ph = "barrier"
       /\ region # 0 =>
            \A x \in Rows(dim) : iters[x] = IF lo <= x /\ x < hi THEN 1 ELSE 0

\* main has left the last call of loop2chunk, run by two workers
C5_Witness ==
  /\ mode = "main"
  /\ pc = "loop2"
  /\ r = nrep
  /\ region = 2
  /\ nthreads = 2
  /\ dim = MaxN
  /\ \A x \in Rows(dim) : c[x] # <<>>

\* C6  Termination.  With every worker scheduled fairly, every call of
\* loop1chunk or loop2chunk, for every range, schedule and team size,
\* eventually returns: the program is outside the kernels again and again,
\* so no call stays inside one for ever (the same as InKernel ~> ~InKernel).
C6_Terminates == []<>(~InKernel)

\* A call over all rows by the largest team has returned
C6_Witness ==
  /\ Returned(2, 1)
  /\ nthreads = MaxThreads
  /\ pre.lo = 0
  /\ pre.hi = dim
  /\ dim = MaxN
  /\ c # pre.c

\* C9  jmax shape.  With N = 729, every row i that init2's first loop has
\* passed has jmax[i] = N if i mod (3*(i div 30)+1) = 0 and jmax[i] = 1
\* otherwise, so after init2 all of jmax has this shape and holds no other
\* value.
C9_JmaxShape ==
  mode = "full" =>
    \A i \in Rows(N) :
       (i < ii \/ pc = "done") =>
          /\ jmax[i] = N <=> i % (3 * (i \div 30) + 1) = 0
          /\ jmax[i] # N => jmax[i] = 1

\* init2's first loop has ended for N = 729, leaving both values in jmax
C9_Witness ==
  /\ mode = "full"
  /\ ~(ii < N)
  /\ dim = N
  /\ jmax[31] = 1
  /\ jmax[32] = N
  /\ jmax[728] = 1

HeavyRows == {i \in Rows(dim) : jmax[i] = dim}

LightRows == {i \in Rows(dim) : jmax[i] = 1}

\* C10  Heavy rows are a minority.  Once init2's first loop has ended for
\* N = 729, and so after init2, fewer rows have jmax[i] = N than have
\* jmax[i] = 1.
C10_HeavyMinority ==
  (mode = "full" /\ ~(ii < N)) => Cardinality(HeavyRows) < Cardinality(LightRows)

\* init2's first loop has ended for N = 729 and there are heavy rows
C10_Witness ==
  /\ mode = "full"
  /\ ~(ii < N)
  /\ dim = N
  /\ Cardinality(HeavyRows) > 30

-----------------------------------------------------------------------------
Updated1(i) ==
  {j \in Rows(dim) : Len(Cell(a, i, j, <<>>)) = Len(Cell(pre.a, i, j, <<>>)) + 1}

C14_InputsReadOnly ==
  [][InKernel =>
       /\ b' = b
       /\ jmax' = jmax
       /\ pc = "call1" => c' = c
       /\ pc = "call2" => a' = a]_vars

\* A loop2chunk call by two workers has changed c, after init2 has written b
\* and jmax; b, jmax and a are as they were before the call
C14_Witness ==
  /\ Returned(2, 1)
  /\ nthreads = 2
  /\ b # <<>>
  /\ b = pre.b
  /\ jmax = pre.jmax
  /\ a = pre.a
  /\ \E i \in Rows(dim) : c[i] # pre.c[i]

\* What a statement accesses lies inside its array
InArray(x) ==
  CASE x[1] \in {"a", "b"} ->
         x[2][1] \in Rows(dim) /\ x[2][2] \in Rows(dim)
    [] OTHER -> x[2] \in Rows(dim)

-----------------------------------------------------------------------------
\* The stage of main the calling thread is in
Phase ==
  CASE pc = "init1" -> 0
    [] pc = "config" -> 1
    [] pc \in {"loop1", "call1"} -> 2
    [] pc = "init2" -> 3
    [] pc \in {"loop2", "call2"} -> 4
    [] OTHER -> 5

\* The number of additions one call of loop2chunk makes to c[i]
Work2(i) == (jmax[i] * (jmax[i] - 1)) \div 2

\* C15  Harness ordering.  main goes through init1, the calls of
\* loop1chunk(0, N), valid1, init2, the calls of loop2chunk(0, N) and valid2
\* in this order and never back; each loop makes exactly reps calls; valid1
\* and valid2 run when the last call has joined and read a and c as they
\* then are; and nothing changes a once the first loop has ended.  Stated on
\* the data: what valid1 read is a as it still is, every a[i][j] with i < j
\* holding exactly reps addends cos(b[i][j]) of the b init1 wrote, and what
\* valid2 read is c with reps times the additions of one call, all of
\* logarithms of the b init2 wrote.
C15_HarnessOrder ==
  /\ [](mode = "main" =>
          /\ r <= nrep
          /\ InKernel => (lo = 0 /\ hi = dim /\ r < nrep)
          /\ region = 0 => (Phase <= 2 /\ r = 0)
          /\ region = 1 => Phase >= 2
          /\ region = 2 => Phase >= 4
          /\ (suma = <<>>) = (Phase < 3)
          /\ (sumc = <<>>) = (Phase < 5)
          /\ Phase >= 3 =>
               /\ suma = SumA
               /\ \A i, j \in Rows(dim) :
                     Cell(a, i, j, <<>>) =
                        IF i < j
                        THEN [x \in 1..nrep |-> <<"cos", Dbl(3142 * (i + j), 1000)>>]
                        ELSE <<>>
          /\ Phase = 5 =>
               /\ sumc = SumC
               /\ \A i \in Rows(dim) :
                     /\ Len(c[i]) = nrep * Work2(i)
                     /\ \A n \in 1..Len(c[i]) : c[i][n].lg[1] = "log")
  /\ [][mode = "main" =>
          /\ Phase' \in {Phase, Phase + 1}
          /\ Phase >= 3 => a' = a
          /\ suma' # suma =>
               /\ pc = "loop1" /\ r = nrep
               /\ \A w \in Workers : team[w].ph = "barrier"
          /\ sumc' # sumc =>
               /\ pc = "loop2" /\ r = nrep
               /\ \A w \in Workers : team[w].ph = "barrier"]_vars

\* main has run to its end with two workers: both checksums have been read
C15_Witness ==
  /\ mode = "main"
  /\ pc = "done"
  /\ nthreads = 2
  /\ dim = MaxN
  /\ r = nrep
  /\ suma # <<>>
  /\ sumc # <<>>
  /\ \E x \in 1..Len(sumc) : sumc[x] # <<>>

\* C16  Policy introspection is a pure read.  No step of main, of a kernel,
\* of init1, init2, valid1 or valid2 changes the schedule kind, the chunk
\* size or the team size; the step of print_omp_config changes none of a, b,
\* c and jmax either; and what it reported is the policy in force in every
\* later state, so during every kernel call.
C16_PolicyReadOnly ==
  /\ [][/\ sched' = sched
        /\ nthreads' = nthreads
        /\ pc = "config" => UNCHANGED <<a, b, c, jmax>>
        /\ report' # report => pc = "config"]_vars
  /\ [](report # <<>> =>
          /\ report.threads = nthreads
          /\ report.schedule = sched.kind
          /\ report.chunk = sched.chunk)

\* A call of loop2chunk is in progress under the guided schedule that
\* print_omp_config reported
C16_Witness ==
  /\ mode = "main"
  /\ pc = "call2"
  /\ report # <<>>
  /\ report.schedule = "guided"
  /\ sched.kind = "guided"
  /\ \E w \in Workers : team[w].ph = "run"

-----------------------------------------------------------------------------
\* C20  Integer arithmetic at N = 729.  For every row i that init2 reaches,
\* the divisor 3*(i/30)+1 is at least 1 and, like i*j+1 and i+j for every
\* column j, N*N, k+1 for every k below N, and the values N and reps that
\* the loop counters end on, it is computed without leaving the range of a
\* signed 32-bit int.
C20_IntSafe ==
  mode = "full" =>
    /\ dim >= 0 /\ MulFits(dim, dim)
    /\ dim <= INT_MAX /\ nrep <= INT_MAX
    /\ ii >= 0 /\ ii <= dim
    /\ ii < dim =>
         /\ ii \div 30 >= 0
         /\ MulFits(3, ii \div 30)
         /\ AddFits(3 * (ii \div 30), 1)
         /\ Divisor(ii) >= 1
         /\ Divisor(ii) <= INT_MAX
         /\ AddFits(ii, 1)
         /\ \A j \in Rows(dim) :
               /\ MulFits(ii, j)
               /\ AddFits(ii * j, 1)
               /\ AddFits(ii, j)
               /\ AddFits(j, 1)

\* init2's first loop has ended for N = 729: the divisor has been computed
\* for every row, the largest for the last
C20_Witness ==
  /\ mode = "full"
  /\ dim = N
  /\ ii = N
  /\ Divisor(N - 1) = 73
  /\ jmax[N - 1] = 1

-----------------------------------------------------------------------------
\* C13  Idempotent initialisation.  Whenever init1 has returned, whatever
\* the arrays held before (the zeroes of a fresh run, what init1 or init2
\* wrote, what kernel calls accumulated), a is 0 everywhere and b[i][j] is
\* 3.142*(i+j); whenever init2 has returned, jmax[i] is N or 1 by the modular
\* rule, c is 0 everywhere and b[i][j] is (i*j+1)/N^2.  The result is a
\* function of N alone, so it is the same on every call.
C13_InitAnywhere ==
  (mode = "any" /\ pc = "done") =>
     /\ pre.kn = 3 =>
          /\ \A i, j \in Rows(dim) :
                /\ Cell(a, i, j, <<>>) = <<>>
                /\ Cell(b, i, j, Zero) =
                      IF i + j = 0 THEN <<0, 1>> ELSE <<3142 * (i + j), 1000>>
          /\ DOMAIN a \cup DOMAIN b \subseteq Rows(dim) \X Rows(dim)
     /\ pre.kn = 4 =>
          /\ \A i \in Rows(dim) :
                /\ jmax[i] = IF i % (3 * (i \div 30) + 1) = 0 THEN dim ELSE 1
                /\ c[i] = <<>>
                /\ \A j \in Rows(dim) :
                      Cell(b, i, j, Zero) = <<i * j + 1, dim * dim>>
          /\ DOMAIN b \subseteq Rows(dim) \X Rows(dim)

\* init1 has returned for the second time, after a call of loop1chunk had
\* accumulated into a: b is as the first call left it and a is 0 again
C13_Witness ==
  /\ mode = "any"
  /\ pc = "done"
  /\ pre.kn = 3
  /\ dim = MaxN
  /\ r = 3
  /\ pre.a # <<>>
  /\ pre.b = b
  /\ a = <<>>

-----------------------------------------------------------------------------
-----------------------------------------------------------------------------
\* The call in progress or last made holds a row that begins outside the
\* arrays
HasWildRow ==
  /\ pre.lo < pre.hi
  /\ \/ pre.lo < 0
     \/ pre.kn = 2 /\ pre.hi > dim

\* C17  Invalid ranges are no reported errors.  A call whose range is not
\* 0 <= lo <= hi <= N is entered like any other and has no error to return:
\* no step of it changes what the program reports, and it ends by returning
\* to its caller, except that a call holding a row outside the arrays has
\* undefined behaviour and may be killed.  With lo > hi no loop body and no
\* such row is ever executed, no array changes and the call is not killed;
\* loop1chunk with 0 <= lo and hi > N accesses nothing outside the arrays and
\* returns what the rows up to N-1 give.
C17_NoErrorPath ==
  /\ [][InKernel =>
          /\ UNCHANGED <<report, suma, sumc, mode>>
          /\ pc' \in {pc, "done", "killed"}
          /\ lo > hi =>
               /\ UNCHANGED <<a, b, c, jmax, iters>>
               /\ \A w \in Workers : team'[w].ph \in {"idle", "barrier"}
               /\ pc' # "killed"]_vars
  /\ [](/\ pc \in {"start", "idle", "init2", "call1", "call2", "done", "killed"}
        /\ pc = "killed" => HasWildRow
        /\ (\E w \in Workers : team[w].ph = "wild") => HasWildRow
        /\ (pc = "done" /\ ~HasWildRow) =>
             /\ b = pre.b /\ jmax = pre.jmax
             /\ pre.kn = 1 =>
                  /\ c = pre.c
                  /\ a = Seq1(pre.a, pre.b, pre.lo, Min(pre.hi, dim))
             /\ pre.kn = 2 => a = pre.a /\ c = pre.c)

\* loop2chunk(-1, N+1) has returned: the rows -1 and N ran outside the
\* arrays, the process survived, and the rows between them added to c
C17_Witness ==
  /\ pc = "done"
  /\ pre.kn = 2
  /\ pre.lo = -1
  /\ pre.hi = dim + 1
  /\ dim = MaxN
  /\ pre.jmax[0] = dim
  /\ \A i \in Rows(dim) : c[i] # pre.c[i]

====
